---------------------------- MODULE Spec2Model ----------------------------
(***************************************************************************)
(* Model of the DB2 static-credential plugin (src/db2_client.go): one      *)
(* db2DB instance, its handle slot d.db, its stored config d.config and    *)
(* its sync.RWMutex d.mux, driven by concurrent callers that invoke        *)
(* Type, Initialize, NewUser, UpdateUser, DeleteUser and Close, and the    *)
(* masking map of src/plugin.go (secretValuesToMask), which the host's     *)
(* sanitizing wrapper reads without holding d.mux.                         *)
(*                                                                         *)
(* Text is a sequence of tokens: "testuser" is <<"testuser">>, the empty   *)
(* string is <<>>, concatenation is \o.  The tokens "{{username}}" and     *)
(* "{{password}}" are the placeholders of a statement template, "UID=" and *)
(* "PWD=" the credential markers of a connection string, "*" the wildcard  *)
(* of go-glob.  dbutil.QueryHelper, strutil.StrListContainsGlob and        *)
(* glob.Glob are library code, modelled by what they compute.              *)
(*                                                                         *)
(* A handler is a sequence of steps of the calling goroutine, pc[p] being  *)
(* its position.  A request is immutable and local to the call, so the     *)
(* model draws it at the step that first reads it.  The deferred           *)
(* Unlock/RUnlock runs in the step that leaves "ret": in "ret" the return  *)
(* value is fixed and the lock is still held.                              *)
(***************************************************************************)
EXTENDS Integers, Sequences, FiniteSets, TLC

\* ------------------------------------------------------------- bounds
\* Initialize calls (hence handles opened) in one behaviour.
MaxHandles == 3
\* Longest caller-supplied statement list of an UpdateUser request.
MaxStmts == 2

\* The concurrent call contexts of the host.
Procs == {"g1", "g2"}

None == "none"

\* ------------------------------------------------------------- text
db2TypeName == <<"db2">>

defaultChangePasswordStatement ==
    <<"ALTER USER \"", "{{username}}", "\" IDENTIFIED BY \"", "{{password}}", "\"">>

\* strings.ReplaceAll(tpl, "{{username}}", username) and the same for
\* "{{password}}", as dbutil.QueryHelper applies them to a template.
RECURSIVE QueryHelper(_, _, _)
QueryHelper(tpl, username, password) ==
    IF tpl = <<>> THEN <<>>
    ELSE LET t == Head(tpl)
             s == IF t = "{{username}}" THEN username
                  ELSE IF t = "{{password}}" THEN password
                  ELSE <<t>>
         IN  s \o QueryHelper(Tail(tpl), username, password)

\* The wildcard of go-glob, the matcher behind strutil.StrListContainsGlob.
GLOB == "*"

\* strings.Split(s, GLOB): the pieces of s between its wildcards.
RECURSIVE Split(_)
Split(s) ==
    IF \A k \in 1..Len(s) : s[k] # GLOB THEN <<s>>
    ELSE LET k == CHOOSE i \in 1..Len(s) : s[i] = GLOB /\ \A j \in 1..(i - 1) : s[j] # GLOB
         IN  <<SubSeq(s, 1, k - 1)>> \o Split(SubSeq(s, k + 1, Len(s)))

\* strings.Index(s, part): offset of the first occurrence of part in s, -1 if none.
Index(s, part) ==
    LET at == {i \in 0..(Len(s) - Len(part)) : SubSeq(s, i + 1, i + Len(part)) = part}
    IN  IF at = {} THEN -1 ELSE CHOOSE i \in at : \A j \in at : i <= j

HasPrefix(s, part) == Len(part) <= Len(s) /\ SubSeq(s, 1, Len(part)) = part

HasSuffix(s, part) == Len(part) <= Len(s) /\ SubSeq(s, Len(s) - Len(part) + 1, Len(s)) = part

\* The loop of glob.Glob over all pieces but the last: <<>> where it returns
\* false, otherwise <<rest>>, rest being what is left of subj.
RECURSIVE GlobLoop(_, _, _, _)
GlobLoop(parts, i, subj, leadingGlob) ==
    IF i >= Len(parts) THEN <<subj>>
    ELSE LET idx == Index(subj, parts[i])
         IN  IF i = 1 /\ ~leadingGlob /\ idx # 0 THEN <<>>
             ELSE IF i > 1 /\ idx < 0 THEN <<>>
             ELSE GlobLoop(parts, i + 1,
                           SubSeq(subj, idx + Len(parts[i]) + 1, Len(subj)), leadingGlob)

\* glob.Glob(pattern, subj): whether subj matches pattern, in which GLOB
\* stands for any text.  A pattern without GLOB matches only itself.
Glob(pattern, subj) ==
    IF pattern = <<>> THEN subj = pattern
    ELSE IF pattern = <<GLOB>> THEN TRUE
    ELSE LET parts == Split(pattern)
         IN  IF Len(parts) = 1 THEN subj = pattern
             ELSE LET rest == GlobLoop(parts, 1, subj, HasPrefix(pattern, <<GLOB>>))
                  IN  /\ rest # <<>>
                      /\ \/ HasSuffix(pattern, <<GLOB>>)
                         \/ HasSuffix(rest[1], parts[Len(parts)])

\* strutil.StrListContainsGlob(haystack, needle): glob.Glob(item, needle) for
\* some item of haystack.  The items are the patterns, needle is the text.
StrListContainsGlob(haystack, needle) ==
    \E k \in 1..Len(haystack) : Glob(haystack[k], needle)

\* strutil.StrListContainsGlob([]string{connStr}, "*UID=*") ||
\* strutil.StrListContainsGlob([]string{connStr}, "*PWD=*"): connStr is the
\* pattern and "*UID=*" the text matched against it.
containsCredentials(connStr) ==
    \/ StrListContainsGlob(<<connStr>>, <<GLOB, "UID=", GLOB>>)
    \/ StrListContainsGlob(<<connStr>>, <<GLOB, "PWD=", GLOB>>)

\* (d *db2DB) buildConnectionString, on the stored config c.
buildConnectionString(c) ==
    IF c.Username # <<>> /\ c.Password # <<>> /\ ~containsCredentials(c.ConnectionURL)
    THEN c.ConnectionURL \o <<";", "UID=">> \o c.Username \o <<";", "PWD=">> \o c.Password
    ELSE c.ConnectionURL

\* ------------------------------------------------------------- errors
NoErr == <<"<nil>">>
Pending == <<>>
ErrDecode == <<"failed to decode configuration: ", "mapstructure">>
ErrURLRequired == <<"connection_url is required">>
ErrOpen == <<"failed to open DB2 connection: ", "sql: unknown driver">>
ErrVerify == <<"failed to verify DB2 connection: ", "SQL30081N">>
ErrNewUser == <<"NewUser is not supported for DB2 static credentials plugin">>
ErrDeleteUser == <<"DeleteUser is not supported for DB2 static credentials plugin">>
ErrNotInitialized == <<"DB2 connection not initialized">>
ErrUsernameRequired == <<"username is required">>
ErrPasswordRequired == <<"new password is required">>
\* What the driver reports for a failed statement, and for an operation on a
\* closed *sql.DB.
DriverExecErr == <<"SQL0551N">>
DriverClosedErr == <<"sql: database is closed">>
DriverCloseErr == <<"SQL1224N">>
\* What sql.Open and PingContext report when they fail.
DriverOpenErr == <<"sql: unknown driver">>
DriverPingErr == <<"SQL30081N">>
ErrUpdate(username, drvErr) ==
    <<"failed to update password for user ">> \o username \o <<": ">> \o drvErr
\* d.db.ExecContext on a nil d.db.
PanicNilDB == <<"panic: nil pointer dereference">>

\* ------------------------------------------------------------- config
\* The zero value of config; d.config of a fresh db2DB.
ZeroConfig ==
    [ConnectionURL |-> <<>>, Username |-> <<>>, Password |-> <<>>,
     MaxOpenConnections |-> 0, MaxIdleConnections |-> 0]

URLPlain == <<"DATABASE=testdb;HOSTNAME=localhost;PORT=50000">>
URLCreds == <<"DATABASE=mydb;HOSTNAME=localhost;", "UID=", "user", ";", "PWD=", "pass">>

\* The configuration bags the host sends: req.Config.  bad marks a bag that
\* mapstructure.WeakDecode rejects; an absent key decodes to the zero value.
RawConfigs ==
    { [bad |-> FALSE, connection_url |-> URLPlain, username |-> <<"testuser">>,
       password |-> <<"testpass">>, max_open_connections |-> 5, max_idle_connections |-> 2],
      [bad |-> FALSE, connection_url |-> <<>>, username |-> <<"testuser">>,
       password |-> <<"testpass">>, max_open_connections |-> 0, max_idle_connections |-> 0],
      [bad |-> FALSE, connection_url |-> URLCreds, username |-> <<"admin">>,
       password |-> <<"adminpw">>, max_open_connections |-> 0, max_idle_connections |-> 0],
      [bad |-> FALSE, connection_url |-> URLPlain, username |-> <<"admin">>,
       password |-> <<>>, max_open_connections |-> 0, max_idle_connections |-> 0],
      [bad |-> TRUE, connection_url |-> URLPlain, username |-> <<"admin">>,
       password |-> <<"adminpw">>, max_open_connections |-> 0, max_idle_connections |-> 0],
      [bad |-> TRUE, connection_url |-> <<>>, username |-> <<"admin">>,
       password |-> <<"adminpw">>, max_open_connections |-> 0, max_idle_connections |-> 0] }

InitializeRequests ==
    { [kind |-> "Initialize", Config |-> c, VerifyConnection |-> v] :
        c \in RawConfigs, v \in BOOLEAN }

\* mapstructure.WeakDecode(req.Config, &cfg), for a bag it accepts.
Decode(raw) ==
    [ConnectionURL |-> raw.connection_url, Username |-> raw.username,
     Password |-> raw.password, MaxOpenConnections |-> raw.max_open_connections,
     MaxIdleConnections |-> raw.max_idle_connections]

\* ------------------------------------------------------------- rotation
\* The k-th caller-supplied statement template.
Template(k) ==
    <<"CALL SYSPROC.SET_PW", ToString(k), "('", "{{username}}", "', '", "{{password}}", "')">>

StmtLists == { [k \in 1..n |-> Template(k)] : n \in 0..MaxStmts }

\* req.Password == nil is HasPassword = FALSE.
UpdateUserRequests ==
    { [kind |-> "UpdateUser", Username |-> u, HasPassword |-> FALSE,
       NewPassword |-> <<>>, Statements |-> <<>>] : u \in {<<>>, <<"testuser">>} }
    \cup
    { [kind |-> "UpdateUser", Username |-> u, HasPassword |-> TRUE,
       NewPassword |-> w, Statements |-> s] :
        u \in {<<>>, <<"testuser">>}, w \in {<<>>, <<"newpw">>, <<"otherpw">>},
        s \in StmtLists }

NoReq == [kind |-> None]

\* The caller's statements appended to the default instead of replacing it.
StatementsDefaultFirst(r) == <<defaultChangePasswordStatement>> \o r.Statements

\* statements := req.Password.Statements.Commands, or the default.
Statements(r) ==
    IF Len(r.Statements) = 0 THEN <<defaultChangePasswordStatement>> ELSE r.Statements

\* ------------------------------------------------------------- state
VARIABLES
    db,        \* d.db: the stored *sql.DB, NilDB when nil
    config,    \* d.config
    muxW,      \* d.mux: the goroutine that holds or is acquiring the write lock
    muxR,      \* d.mux: the goroutines that hold the read lock
    opened,    \* number of handles sql.Open has returned; their ids are 1..opened
    closedBy,  \* per handle id: the step that called Close on it, None while open
    pc,        \* position of each caller inside its handler
    op,        \* the operation each caller is in
    req,       \* its request, once read
    idx,       \* UpdateUser: index of the next statement of the loop
    executed,  \* the sql.Open, PingContext and ExecContext calls of this call, in order
    pre,       \* d.db and d.config as they were when the call obtained d.mux
    out,       \* the value the call returns beside the error: Type's name, the masking map
    ret        \* the error value the call returns, Pending until fixed

vars == <<db, config, muxW, muxR, opened, closedBy, pc, op, req, idx, executed, pre, out, ret>>

NilDB == [id |-> 0, dsn |-> <<>>, maxOpen |-> 0, maxIdle |-> 0]

NoPre == [db |-> NilDB, config |-> ZeroConfig]

\* The handles on which Close has been called.
closed == {h \in 1..MaxHandles : closedBy[h] # None}

\* (*sql.DB).Close() on the stored handle, called by the step named by.
CloseDB(by) == closedBy' = [closedBy EXCEPT ![db.id] = by]

Init ==
    /\ db = NilDB
    /\ config = ZeroConfig
    /\ muxW = None
    /\ muxR = {}
    /\ opened = 0
    /\ closedBy = [h \in 1..MaxHandles |-> None]
    /\ pc = [p \in Procs |-> "idle"]
    /\ op = [p \in Procs |-> None]
    /\ req = [p \in Procs |-> NoReq]
    /\ idx = [p \in Procs |-> 0]
    /\ executed = [p \in Procs |-> <<>>]
    /\ pre = [p \in Procs |-> NoPre]
    /\ out = [p \in Procs |-> <<>>]
    /\ ret = [p \in Procs |-> Pending]


\* ------------------------------------------------------------- d.mux
\* sync.RWMutex.  Lock first takes the writer slot, which also turns away
\* every later RLock, and then waits until the readers that were inside
\* have left; RLock waits while a writer holds or awaits the lock.
LockFree == muxW = None

ReadersDrained == muxR = {}

\* RLock that does not wait for a writer.
RLockAdmittedAlways == TRUE

RLockAdmitted == muxW = None

\* d.mux.Lock(), first half: announce the writer.
MuxLock(p) ==
    /\ pc[p] = "lock"
    /\ LockFree
    /\ muxW' = p
    /\ pc' = [pc EXCEPT ![p] = "lockwait"]
    /\ UNCHANGED <<db, config, muxR, opened, closedBy, op, req, idx, executed, pre, out, ret>>

\* A Lock that returns while readers are still inside.
MuxLockAcquiredReadersInside(p) ==
    /\ pc[p] = "lockwait"
    /\ muxW = p
    /\ pc' = [pc EXCEPT ![p] = IF op[p] = "Initialize" THEN "teardown" ELSE "close"]
    /\ pre' = [pre EXCEPT ![p] = [db |-> db, config |-> config]]
    /\ UNCHANGED <<db, config, muxW, muxR, opened, closedBy, op, req, idx, executed, out, ret>>

\* d.mux.Lock(), second half: the readers have left, Lock returns.
MuxLockAcquired(p) ==
    /\ pc[p] = "lockwait"
    /\ muxW = p
    /\ ReadersDrained
    /\ pc' = [pc EXCEPT ![p] = IF op[p] = "Initialize" THEN "teardown" ELSE "close"]
    /\ pre' = [pre EXCEPT ![p] = [db |-> db, config |-> config]]
    /\ UNCHANGED <<db, config, muxW, muxR, opened, closedBy, op, req, idx, executed, out, ret>>

\* d.mux.RLock()
MuxRLock(p) ==
    /\ pc[p] = "rlock"
    /\ RLockAdmitted
    /\ muxR' = muxR \cup {p}
    /\ pc' = [pc EXCEPT ![p] = "check"]
    /\ pre' = [pre EXCEPT ![p] = [db |-> db, config |-> config]]
    /\ UNCHANGED <<db, config, muxW, opened, closedBy, op, req, idx, executed, out, ret>>

\* The caller is back in the host: the locals of the call are gone.
Returned(p) ==
    /\ pc' = [pc EXCEPT ![p] = "idle"]
    /\ op' = [op EXCEPT ![p] = None]
    /\ req' = [req EXCEPT ![p] = NoReq]
    /\ idx' = [idx EXCEPT ![p] = 0]
    /\ executed' = [executed EXCEPT ![p] = <<>>]
    /\ pre' = [pre EXCEPT ![p] = NoPre]
    /\ out' = [out EXCEPT ![p] = <<>>]
    /\ ret' = [ret EXCEPT ![p] = Pending]

\* ------------------------------------------------------------- Initialize
InitializeCall(p) ==
    /\ pc[p] = "idle"
    /\ opened + Cardinality({q \in Procs : op[q] = "Initialize"}) < MaxHandles
    /\ pc' = [pc EXCEPT ![p] = "lock"]
    /\ op' = [op EXCEPT ![p] = "Initialize"]
    /\ UNCHANGED <<db, config, muxW, muxR, opened, closedBy, req, idx, executed, pre, out, ret>>

\* Initialize without the teardown of the existing connection.
InitializeTeardownSkipped(p) ==
    /\ pc[p] = "teardown"
    /\ pc' = [pc EXCEPT ![p] = "decode"]
    /\ UNCHANGED <<db, config, muxW, muxR, opened, closedBy, op, req, idx, executed, pre, out, ret>>

\* if d.db != nil { d.db.Close(); d.db = nil }
InitializeTeardown(p) ==
    /\ pc[p] = "teardown"
    /\ IF db # NilDB
       THEN /\ CloseDB("Initialize")
            /\ db' = NilDB
       ELSE UNCHANGED <<closedBy, db>>
    /\ pc' = [pc EXCEPT ![p] = "decode"]
    /\ UNCHANGED <<config, muxW, muxR, opened, op, req, idx, executed, pre, out, ret>>

\* Initialize without the connection_url check.
InitializeDecodeNoURLCheck(p, r) ==
    /\ pc[p] = "decode"
    /\ req' = [req EXCEPT ![p] = r]
    /\ IF r.Config.bad
       THEN /\ ret' = [ret EXCEPT ![p] = ErrDecode]
            /\ pc' = [pc EXCEPT ![p] = "ret"]
       ELSE /\ pc' = [pc EXCEPT ![p] = "store"]
            /\ UNCHANGED ret
    /\ UNCHANGED <<db, config, muxW, muxR, opened, closedBy, op, idx, executed, pre, out>>

\* An Initialize that stores the decoded config before it checks connection_url.
InitializeDecodeStoresUnchecked(p, r) ==
    /\ pc[p] = "decode"
    /\ req' = [req EXCEPT ![p] = r]
    /\ IF r.Config.bad
       THEN /\ ret' = [ret EXCEPT ![p] = ErrDecode]
            /\ pc' = [pc EXCEPT ![p] = "ret"]
            /\ UNCHANGED config
       ELSE IF Decode(r.Config).ConnectionURL = <<>>
       THEN /\ ret' = [ret EXCEPT ![p] = ErrURLRequired]
            /\ pc' = [pc EXCEPT ![p] = "ret"]
            /\ config' = Decode(r.Config)
       ELSE /\ pc' = [pc EXCEPT ![p] = "store"]
            /\ UNCHANGED <<ret, config>>
    /\ UNCHANGED <<db, muxW, muxR, opened, closedBy, op, idx, executed, pre, out>>

\* WeakDecode and the connection_url check.  A config that passes is
\* written to d.config by the next step; from here until that step is done
\* the write d.config = cfg is under way.
InitializeDecode(p, r) ==
    /\ pc[p] = "decode"
    /\ req' = [req EXCEPT ![p] = r]
    /\ IF r.Config.bad
       THEN /\ ret' = [ret EXCEPT ![p] = ErrDecode]
            /\ pc' = [pc EXCEPT ![p] = "ret"]
       ELSE IF Decode(r.Config).ConnectionURL = <<>>
       THEN /\ ret' = [ret EXCEPT ![p] = ErrURLRequired]
            /\ pc' = [pc EXCEPT ![p] = "ret"]
       ELSE /\ pc' = [pc EXCEPT ![p] = "store"]
            /\ UNCHANGED ret
    /\ UNCHANGED <<db, config, muxW, muxR, opened, closedBy, op, idx, executed, pre, out>>

\* d.config = cfg has completed.
InitializeStore(p) ==
    /\ pc[p] = "store"
    /\ config' = Decode(req[p].Config)
    /\ pc' = [pc EXCEPT ![p] = "open"]
    /\ UNCHANGED <<db, muxW, muxR, opened, closedBy, op, req, idx, executed, pre, out, ret>>

\* The *sql.DB that sql.Open returns for connStr, after the pool limits of cfg
\* are applied (0: the driver's default is kept).
OpenedDB(id, connStr, cfg) ==
    [id |-> id, dsn |-> connStr,
     maxOpen |-> IF cfg.MaxOpenConnections > 0 THEN cfg.MaxOpenConnections ELSE 0,
     maxIdle |-> IF cfg.MaxIdleConnections > 0 THEN cfg.MaxIdleConnections ELSE 0]

\* An Initialize that builds the connection string from the config it found
\* stored when it began.
InitializeOpenStaleConfig(p, ok) ==
    /\ pc[p] = "open"
    /\ executed' = [executed EXCEPT ![p] =
            Append(@, [call |-> "sql.Open", query |-> buildConnectionString(pre[p].config),
                       handle |-> IF ok THEN opened + 1 ELSE 0,
                       err |-> IF ok THEN NoErr ELSE DriverOpenErr])]
    /\ IF ~ok
       THEN /\ ret' = [ret EXCEPT ![p] = ErrOpen]
            /\ pc' = [pc EXCEPT ![p] = "ret"]
            /\ UNCHANGED <<db, opened>>
       ELSE /\ opened' = opened + 1
            /\ db' = OpenedDB(opened + 1, buildConnectionString(pre[p].config),
                              Decode(req[p].Config))
            /\ IF req[p].VerifyConnection
               THEN /\ pc' = [pc EXCEPT ![p] = "verify"]
                    /\ UNCHANGED ret
               ELSE /\ pc' = [pc EXCEPT ![p] = "ret"]
                    /\ ret' = [ret EXCEPT ![p] = NoErr]
    /\ UNCHANGED <<config, muxW, muxR, closedBy, op, req, idx, pre, out>>

\* An Initialize that probes the connection whether or not it was asked to.
InitializeOpenAlwaysProbes(p, ok) ==
    /\ pc[p] = "open"
    /\ executed' = [executed EXCEPT ![p] =
            Append(@, [call |-> "sql.Open", query |-> buildConnectionString(config),
                       handle |-> IF ok THEN opened + 1 ELSE 0,
                       err |-> IF ok THEN NoErr ELSE DriverOpenErr])]
    /\ IF ~ok
       THEN /\ ret' = [ret EXCEPT ![p] = ErrOpen]
            /\ pc' = [pc EXCEPT ![p] = "ret"]
            /\ UNCHANGED <<db, opened>>
       ELSE /\ opened' = opened + 1
            /\ db' = OpenedDB(opened + 1, buildConnectionString(config), Decode(req[p].Config))
            /\ pc' = [pc EXCEPT ![p] = "verify"]
            /\ UNCHANGED ret
    /\ UNCHANGED <<config, muxW, muxR, closedBy, op, req, idx, pre, out>>

\* buildConnectionString, sql.Open, the pool limits, d.db = db; with
\* VerifyConnection unset also the successful return.
InitializeOpen(p, ok) ==
    /\ pc[p] = "open"
    /\ executed' = [executed EXCEPT ![p] =
            Append(@, [call |-> "sql.Open", query |-> buildConnectionString(config),
                       handle |-> IF ok THEN opened + 1 ELSE 0,
                       err |-> IF ok THEN NoErr ELSE DriverOpenErr])]
    /\ IF ~ok
       THEN /\ ret' = [ret EXCEPT ![p] = ErrOpen]
            /\ pc' = [pc EXCEPT ![p] = "ret"]
            /\ UNCHANGED <<db, opened>>
       ELSE /\ opened' = opened + 1
            /\ db' = OpenedDB(opened + 1, buildConnectionString(config), Decode(req[p].Config))
            /\ IF req[p].VerifyConnection
               THEN /\ pc' = [pc EXCEPT ![p] = "verify"]
                    /\ UNCHANGED ret
               ELSE /\ pc' = [pc EXCEPT ![p] = "ret"]
                    /\ ret' = [ret EXCEPT ![p] = NoErr]
    /\ UNCHANGED <<config, muxW, muxR, closedBy, op, req, idx, pre, out>>

\* A failed probe that returns the error and keeps the handle.
InitializeVerifyKeepsHandle(p, ok) ==
    /\ pc[p] = "verify"
    /\ executed' = [executed EXCEPT ![p] =
            Append(@, [call |-> "PingContext", query |-> <<>>, handle |-> db.id,
                       err |-> IF ok THEN NoErr ELSE DriverPingErr])]
    /\ ret' = [ret EXCEPT ![p] = IF ok THEN NoErr ELSE ErrVerify]
    /\ pc' = [pc EXCEPT ![p] = "ret"]
    /\ UNCHANGED <<db, config, muxW, muxR, opened, closedBy, op, req, idx, pre, out>>

\* A probe that is tried a second time when it fails.
InitializeVerifyRetriesOnce(p, ok) ==
    /\ pc[p] = "verify"
    /\ executed' = [executed EXCEPT ![p] =
            IF ok
            THEN Append(@, [call |-> "PingContext", query |-> <<>>, handle |-> db.id,
                            err |-> NoErr])
            ELSE @ \o <<[call |-> "PingContext", query |-> <<>>, handle |-> db.id,
                         err |-> DriverPingErr],
                        [call |-> "PingContext", query |-> <<>>, handle |-> db.id,
                         err |-> NoErr]>>]
    /\ ret' = [ret EXCEPT ![p] = NoErr]
    /\ pc' = [pc EXCEPT ![p] = "ret"]
    /\ UNCHANGED <<db, config, muxW, muxR, opened, closedBy, op, req, idx, pre, out>>

\* d.db.PingContext(ctx); on failure d.db.Close(); d.db = nil
InitializeVerify(p, ok) ==
    /\ pc[p] = "verify"
    /\ executed' = [executed EXCEPT ![p] =
            Append(@, [call |-> "PingContext", query |-> <<>>, handle |-> db.id,
                       err |-> IF ok THEN NoErr ELSE DriverPingErr])]
    /\ IF ok
       THEN /\ ret' = [ret EXCEPT ![p] = NoErr]
            /\ UNCHANGED <<db, closedBy>>
       ELSE /\ CloseDB("Initialize.verify")
            /\ db' = NilDB
            /\ ret' = [ret EXCEPT ![p] = ErrVerify]
    /\ pc' = [pc EXCEPT ![p] = "ret"]
    /\ UNCHANGED <<config, muxW, muxR, opened, op, req, idx, pre, out>>

\* return, then the deferred d.mux.Unlock()
InitializeReturn(p) ==
    /\ pc[p] = "ret"
    /\ op[p] = "Initialize"
    /\ muxW' = None
    /\ Returned(p)
    /\ UNCHANGED <<db, config, muxR, opened, closedBy>>

\* ------------------------------------------------------------- Close
CloseCall(p) ==
    /\ pc[p] = "idle"
    /\ pc' = [pc EXCEPT ![p] = "lock"]
    /\ op' = [op EXCEPT ![p] = "Close"]
    /\ UNCHANGED <<db, config, muxW, muxR, opened, closedBy, req, idx, executed, pre, out, ret>>

\* Close that returns the driver's error before it clears d.db.
CloseKeepsHandleOnError(p, ok) ==
    /\ pc[p] = "close"
    /\ IF db # NilDB
       THEN /\ CloseDB("Close")
            /\ db' = IF ok THEN NilDB ELSE db
            /\ ret' = [ret EXCEPT ![p] = IF ok THEN NoErr ELSE DriverCloseErr]
       ELSE /\ ok
            /\ ret' = [ret EXCEPT ![p] = NoErr]
            /\ UNCHANGED <<closedBy, db>>
    /\ pc' = [pc EXCEPT ![p] = "ret"]
    /\ UNCHANGED <<config, muxW, muxR, opened, op, req, idx, executed, pre, out>>

\* Close that also forgets the stored config.
CloseClearsConfig(p, ok) ==
    /\ pc[p] = "close"
    /\ IF db # NilDB
       THEN /\ CloseDB("Close")
            /\ db' = NilDB
            /\ ret' = [ret EXCEPT ![p] = IF ok THEN NoErr ELSE DriverCloseErr]
       ELSE /\ ok
            /\ ret' = [ret EXCEPT ![p] = NoErr]
            /\ UNCHANGED <<closedBy, db>>
    /\ config' = ZeroConfig
    /\ pc' = [pc EXCEPT ![p] = "ret"]
    /\ UNCHANGED <<muxW, muxR, opened, op, req, idx, executed, pre, out>>

\* Close that reports a missing connection instead of succeeding.
CloseFailsWithoutHandle(p, ok) ==
    /\ pc[p] = "close"
    /\ IF db # NilDB
       THEN /\ CloseDB("Close")
            /\ db' = NilDB
            /\ ret' = [ret EXCEPT ![p] = IF ok THEN NoErr ELSE DriverCloseErr]
       ELSE /\ ok
            /\ ret' = [ret EXCEPT ![p] = ErrNotInitialized]
            /\ UNCHANGED <<closedBy, db>>
    /\ pc' = [pc EXCEPT ![p] = "ret"]
    /\ UNCHANGED <<config, muxW, muxR, opened, op, req, idx, executed, pre, out>>

\* if d.db != nil { err := d.db.Close(); d.db = nil; return err }; return nil
Close(p, ok) ==
    /\ pc[p] = "close"
    /\ IF db # NilDB
       THEN /\ CloseDB("Close")
            /\ db' = NilDB
            /\ ret' = [ret EXCEPT ![p] = IF ok THEN NoErr ELSE DriverCloseErr]
       ELSE /\ ok
            /\ ret' = [ret EXCEPT ![p] = NoErr]
            /\ UNCHANGED <<closedBy, db>>
    /\ pc' = [pc EXCEPT ![p] = "ret"]
    /\ UNCHANGED <<config, muxW, muxR, opened, op, req, idx, executed, pre, out>>

\* return, then the deferred d.mux.Unlock()
CloseReturn(p) ==
    /\ pc[p] = "ret"
    /\ op[p] = "Close"
    /\ muxW' = None
    /\ Returned(p)
    /\ UNCHANGED <<db, config, muxR, opened, closedBy>>

\* ------------------------------------------------------------- UpdateUser
UpdateUserCall(p) ==
    /\ pc[p] = "idle"
    /\ pc' = [pc EXCEPT ![p] = "rlock"]
    /\ op' = [op EXCEPT ![p] = "UpdateUser"]
    /\ UNCHANGED <<db, config, muxW, muxR, opened, closedBy, req, idx, executed, pre, out, ret>>

\* The req.Password == nil shortcut taken before the d.db == nil check.
UpdateUserPrecheckPasswordFirst(r) ==
    IF ~r.HasPassword THEN NoErr
    ELSE IF db = NilDB THEN ErrNotInitialized
    ELSE IF r.Username = <<>> THEN ErrUsernameRequired
    ELSE IF r.NewPassword = <<>> THEN ErrPasswordRequired
    ELSE Pending

\* The new password check left out.
UpdateUserPrecheckNoPasswordCheck(r) ==
    IF db = NilDB THEN ErrNotInitialized
    ELSE IF ~r.HasPassword THEN NoErr
    ELSE IF r.Username = <<>> THEN ErrUsernameRequired
    ELSE Pending

\* The username check made before the req.Password == nil shortcut.
UpdateUserPrecheckUsernameFirst(r) ==
    IF db = NilDB THEN ErrNotInitialized
    ELSE IF r.Username = <<>> THEN ErrUsernameRequired
    ELSE IF ~r.HasPassword THEN NoErr
    ELSE IF r.NewPassword = <<>> THEN ErrPasswordRequired
    ELSE Pending

\* What UpdateUser returns before its loop, Pending when it enters the loop:
\* the d.db == nil check, req.Password == nil, the username and the new
\* password checks, in the order of the code.
UpdateUserPrecheck(r) ==
    IF db = NilDB THEN ErrNotInitialized
    ELSE IF ~r.HasPassword THEN NoErr
    ELSE IF r.Username = <<>> THEN ErrUsernameRequired
    ELSE IF r.NewPassword = <<>> THEN ErrPasswordRequired
    ELSE Pending

UpdateUserCheck(p, r) ==
    /\ pc[p] = "check"
    /\ req' = [req EXCEPT ![p] = r]
    /\ IF UpdateUserPrecheck(r) # Pending
       THEN /\ ret' = [ret EXCEPT ![p] = UpdateUserPrecheck(r)]
            /\ pc' = [pc EXCEPT ![p] = "ret"]
            /\ UNCHANGED idx
       ELSE /\ idx' = [idx EXCEPT ![p] = 1]
            /\ pc' = [pc EXCEPT ![p] = "exec"]
            /\ UNCHANGED ret
    /\ UNCHANGED <<db, config, muxW, muxR, opened, closedBy, op, executed, pre, out>>

\* What d.db.ExecContext(ctx, query) returns: the driver's verdict ok on an
\* open handle, an error on a closed one.
ExecContext(ok) ==
    IF db.id \in closed THEN DriverClosedErr
    ELSE IF ok THEN NoErr
    ELSE DriverExecErr

\* A loop that records a failure and goes on with the next statement.
UpdateUserExecNoAbort(p, ok) ==
    /\ pc[p] = "exec"
    /\ db # NilDB
    /\ LET r == req[p]
           query == QueryHelper(Statements(r)[idx[p]], r.Username, r.NewPassword)
           err == ExecContext(ok)
           failed == err # NoErr \/ \E k \in 1..Len(executed[p]) : executed[p][k].err # NoErr
       IN  /\ executed' = [executed EXCEPT ![p] =
                   Append(@, [call |-> "ExecContext", query |-> query,
                                   handle |-> db.id, err |-> err])]
           /\ IF idx[p] = Len(Statements(r))
              THEN /\ ret' = [ret EXCEPT ![p] =
                          IF failed THEN ErrUpdate(r.Username, DriverExecErr) ELSE NoErr]
                   /\ pc' = [pc EXCEPT ![p] = "ret"]
                   /\ UNCHANGED idx
              ELSE /\ idx' = [idx EXCEPT ![p] = @ + 1]
                   /\ UNCHANGED <<ret, pc>>
    /\ UNCHANGED <<db, config, muxW, muxR, opened, closedBy, op, req, pre, out>>

\* A loop whose error message quotes the statement that failed.
UpdateUserExecErrorQuotesQuery(p, ok) ==
    /\ pc[p] = "exec"
    /\ db # NilDB
    /\ LET r == req[p]
           query == QueryHelper(Statements(r)[idx[p]], r.Username, r.NewPassword)
           err == ExecContext(ok)
       IN  /\ executed' = [executed EXCEPT ![p] =
                   Append(@, [call |-> "ExecContext", query |-> query,
                              handle |-> db.id, err |-> err])]
           /\ IF err # NoErr
              THEN /\ ret' = [ret EXCEPT ![p] =
                          ErrUpdate(r.Username, err) \o <<" in ">> \o query]
                   /\ pc' = [pc EXCEPT ![p] = "ret"]
                   /\ UNCHANGED idx
              ELSE IF idx[p] = Len(Statements(r))
              THEN /\ ret' = [ret EXCEPT ![p] = NoErr]
                   /\ pc' = [pc EXCEPT ![p] = "ret"]
                   /\ UNCHANGED idx
              ELSE /\ idx' = [idx EXCEPT ![p] = @ + 1]
                   /\ UNCHANGED <<ret, pc>>
    /\ UNCHANGED <<db, config, muxW, muxR, opened, closedBy, op, req, pre, out>>

\* A loop that closes and drops the handle when a statement fails.
UpdateUserExecDropsHandleOnError(p, ok) ==
    /\ pc[p] = "exec"
    /\ db # NilDB
    /\ LET r == req[p]
           query == QueryHelper(Statements(r)[idx[p]], r.Username, r.NewPassword)
           err == ExecContext(ok)
       IN  /\ executed' = [executed EXCEPT ![p] =
                   Append(@, [call |-> "ExecContext", query |-> query,
                              handle |-> db.id, err |-> err])]
           /\ IF err # NoErr
              THEN /\ ret' = [ret EXCEPT ![p] = ErrUpdate(r.Username, err)]
                   /\ pc' = [pc EXCEPT ![p] = "ret"]
                   /\ CloseDB("UpdateUser")
                   /\ db' = NilDB
                   /\ UNCHANGED idx
              ELSE IF idx[p] = Len(Statements(r))
              THEN /\ ret' = [ret EXCEPT ![p] = NoErr]
                   /\ pc' = [pc EXCEPT ![p] = "ret"]
                   /\ UNCHANGED <<idx, db, closedBy>>
              ELSE /\ idx' = [idx EXCEPT ![p] = @ + 1]
                   /\ UNCHANGED <<ret, pc, db, closedBy>>
    /\ UNCHANGED <<config, muxW, muxR, opened, op, req, pre, out>>

\* One iteration of the loop over statements; after the last one, the
\* successful return.
UpdateUserExec(p, ok) ==
    /\ pc[p] = "exec"
    /\ LET r == req[p]
           query == QueryHelper(Statements(r)[idx[p]], r.Username, r.NewPassword)
           err == ExecContext(ok)
       IN  IF db = NilDB
           THEN /\ ret' = [ret EXCEPT ![p] = PanicNilDB]
                /\ pc' = [pc EXCEPT ![p] = "ret"]
                /\ UNCHANGED <<idx, executed>>
           ELSE /\ executed' = [executed EXCEPT ![p] =
                        Append(@, [call |-> "ExecContext", query |-> query,
                                   handle |-> db.id, err |-> err])]
                /\ IF err # NoErr
                   THEN /\ ret' = [ret EXCEPT ![p] = ErrUpdate(r.Username, err)]
                        /\ pc' = [pc EXCEPT ![p] = "ret"]
                        /\ UNCHANGED idx
                   ELSE IF idx[p] = Len(Statements(r))
                   THEN /\ ret' = [ret EXCEPT ![p] = NoErr]
                        /\ pc' = [pc EXCEPT ![p] = "ret"]
                        /\ UNCHANGED idx
                   ELSE /\ idx' = [idx EXCEPT ![p] = @ + 1]
                        /\ UNCHANGED <<ret, pc>>
    /\ UNCHANGED <<db, config, muxW, muxR, opened, closedBy, op, req, pre, out>>

\* A return that releases the read lock only on the successful path.
UpdateUserReturnKeepsRLockOnError(p) ==
    /\ pc[p] = "ret"
    /\ op[p] = "UpdateUser"
    /\ muxR' = IF ret[p] = NoErr THEN muxR \ {p} ELSE muxR
    /\ Returned(p)
    /\ UNCHANGED <<db, config, muxW, opened, closedBy>>

\* return, then the deferred d.mux.RUnlock()
UpdateUserReturn(p) ==
    /\ pc[p] = "ret"
    /\ op[p] = "UpdateUser"
    /\ muxR' = muxR \ {p}
    /\ Returned(p)
    /\ UNCHANGED <<db, config, muxW, opened, closedBy>>

\* ------------------------------------------------------------- lock-free operations
Type(p) ==
    /\ pc[p] = "idle"
    /\ pc' = [pc EXCEPT ![p] = "ret"]
    /\ op' = [op EXCEPT ![p] = "Type"]
    /\ out' = [out EXCEPT ![p] = db2TypeName]
    /\ ret' = [ret EXCEPT ![p] = NoErr]
    /\ UNCHANGED <<db, config, muxW, muxR, opened, closedBy, req, idx, executed, pre>>

\* A NewUser that asks for a connection before it refuses.
NewUserChecksConnection(p) ==
    /\ pc[p] = "idle"
    /\ pc' = [pc EXCEPT ![p] = "ret"]
    /\ op' = [op EXCEPT ![p] = "NewUser"]
    /\ ret' = [ret EXCEPT ![p] = IF db = NilDB THEN ErrNotInitialized ELSE ErrNewUser]
    /\ UNCHANGED <<db, config, muxW, muxR, opened, closedBy, req, idx, executed, pre, out>>

NewUser(p) ==
    /\ pc[p] = "idle"
    /\ pc' = [pc EXCEPT ![p] = "ret"]
    /\ op' = [op EXCEPT ![p] = "NewUser"]
    /\ ret' = [ret EXCEPT ![p] = ErrNewUser]
    /\ UNCHANGED <<db, config, muxW, muxR, opened, closedBy, req, idx, executed, pre, out>>

DeleteUser(p) ==
    /\ pc[p] = "idle"
    /\ pc' = [pc EXCEPT ![p] = "ret"]
    /\ op' = [op EXCEPT ![p] = "DeleteUser"]
    /\ ret' = [ret EXCEPT ![p] = ErrDeleteUser]
    /\ UNCHANGED <<db, config, muxW, muxR, opened, closedBy, req, idx, executed, pre, out>>

\* The values of d.config a reader that holds no lock can find: the stored
\* one, and, while an Initialize is writing d.config = cfg (a data race), any
\* mix of the fields of the stored config and of the one being written.
ReadableConfigs ==
    {config} \cup
    UNION { { [config EXCEPT !.Username = u, !.Password = w] :
                u \in {config.Username, Decode(req[q].Config).Username},
                w \in {config.Password, Decode(req[q].Config).Password} } :
            q \in {q \in Procs : pc[q] = "store"} }

\* map[string]string{c.Password: "[password]", c.Username: "[username]"}: of
\* two equal keys of a map literal the later one stays.
secretValuesToMask(c) ==
    [k \in {c.Password, c.Username} |-> IF k = c.Username THEN "[username]" ELSE "[password]"]

\* SecretMasker.Values(): d.secretValuesToMask(), which takes no lock.
SecretValues(p) ==
    /\ pc[p] = "idle"
    /\ pc' = [pc EXCEPT ![p] = "ret"]
    /\ op' = [op EXCEPT ![p] = "SecretValues"]
    /\ \E c \in ReadableConfigs : out' = [out EXCEPT ![p] = secretValuesToMask(c)]
    /\ ret' = [ret EXCEPT ![p] = NoErr]
    /\ UNCHANGED <<db, config, muxW, muxR, opened, closedBy, req, idx, executed, pre>>

\* Type, NewUser, DeleteUser and SecretValues hold no lock when they return.
PlainReturn(p) ==
    /\ pc[p] = "ret"
    /\ op[p] \in {"Type", "NewUser", "DeleteUser", "SecretValues"}
    /\ Returned(p)
    /\ UNCHANGED <<db, config, muxW, muxR, opened, closedBy>>

\* ------------------------------------------------------------- specification
Next ==
    \E p \in Procs :
        \/ InitializeCall(p)
        \/ CloseCall(p)
        \/ UpdateUserCall(p)
        \/ MuxLock(p)
        \/ MuxLockAcquired(p)
        \/ MuxRLock(p)
        \/ InitializeTeardown(p)
        \/ \E r \in InitializeRequests : InitializeDecode(p, r)
        \/ InitializeStore(p)
        \/ \E ok \in BOOLEAN : InitializeOpen(p, ok)
        \/ \E ok \in BOOLEAN : InitializeVerify(p, ok)
        \/ InitializeReturn(p)
        \/ \E ok \in BOOLEAN : Close(p, ok)
        \/ CloseReturn(p)
        \/ \E r \in UpdateUserRequests : UpdateUserCheck(p, r)
        \/ \E ok \in BOOLEAN : UpdateUserExec(p, ok)
        \/ UpdateUserReturn(p)
        \/ Type(p)
        \/ NewUser(p)
        \/ DeleteUser(p)
        \/ SecretValues(p)
        \/ PlainReturn(p)

Spec == Init /\ [][Next]_vars

\* The steps the goroutine of caller p takes by itself once it is inside a
\* handler and not blocked in Lock or RLock.
Step(p) ==
    \/ MuxLockAcquired(p)
    \/ InitializeTeardown(p)
    \/ \E r \in InitializeRequests : InitializeDecode(p, r)
    \/ InitializeStore(p)
    \/ \E ok \in BOOLEAN : InitializeOpen(p, ok)
    \/ \E ok \in BOOLEAN : InitializeVerify(p, ok)
    \/ InitializeReturn(p)
    \/ \E ok \in BOOLEAN : Close(p, ok)
    \/ CloseReturn(p)
    \/ \E r \in UpdateUserRequests : UpdateUserCheck(p, r)
    \/ \E ok \in BOOLEAN : UpdateUserExec(p, ok)
    \/ UpdateUserReturn(p)
    \/ PlainReturn(p)

\* Scheduling: a goroutine that can run does run, and every driver call
\* returns; sync.RWMutex lets a goroutine blocked in Lock or RLock in once
\* the lock has become free for it often enough (a writer that unlocks wakes
\* the readers that queued behind it; a starved waiter is handed the lock).
\* Whether the host calls at all is left open.
Fairness ==
    \A p \in Procs :
        /\ WF_vars(Step(p))
        /\ SF_vars(MuxLock(p) \/ MuxRLock(p))

\* The requests under which progress is established: one of each outcome of Initialize's
\* decoding and of UpdateUser's checks, the shortest and the longest
\* statement list.  Progress does not depend on the text a request carries.
LiveInitializeRequests ==
    {r \in InitializeRequests :
        /\ r.Config.username = IF r.Config.bad THEN <<"admin">> ELSE <<"testuser">>
        /\ r.Config.bad => r.Config.connection_url = <<>>}

LiveUpdateUserRequests ==
    {r \in UpdateUserRequests :
        /\ r.Username = <<>> => r.HasPassword /\ r.NewPassword = <<"newpw">> /\ r.Statements = <<>>
        /\ r.Username # <<>> /\ r.HasPassword
              => r.NewPassword = <<"newpw">> /\ Len(r.Statements) \in {0, MaxStmts}}

\* Next with the requests drawn from the sets above; the calls that take no
\* lock and have a single step are left out.
LiveNext ==
    \E p \in Procs :
        \/ InitializeCall(p)
        \/ CloseCall(p)
        \/ UpdateUserCall(p)
        \/ MuxLock(p)
        \/ MuxLockAcquired(p)
        \/ MuxRLock(p)
        \/ InitializeTeardown(p)
        \/ \E r \in LiveInitializeRequests : InitializeDecode(p, r)
        \/ InitializeStore(p)
        \/ \E ok \in BOOLEAN : InitializeOpen(p, ok)
        \/ \E ok \in BOOLEAN : InitializeVerify(p, ok)
        \/ InitializeReturn(p)
        \/ \E ok \in BOOLEAN : Close(p, ok)
        \/ CloseReturn(p)
        \/ \E r \in LiveUpdateUserRequests : UpdateUserCheck(p, r)
        \/ \E ok \in BOOLEAN : UpdateUserExec(p, ok)
        \/ UpdateUserReturn(p)

LiveSpec == Init /\ [][LiveNext]_vars /\ Fairness

\* ------------------------------------------------------------- properties
\* p has its return value fixed in operation o and still holds o's lock.
AtRet(p, o) == op[p] = o /\ pc[p] = "ret"

\* p is between the return of d.mux.Lock() and the deferred Unlock().
InWriteSection(p) ==
    /\ op[p] \in {"Initialize", "Close"}
    /\ pc[p] \in {"teardown", "decode", "store", "open", "verify", "close", "ret"}

\* p is between the return of d.mux.RLock() and the deferred RUnlock().
InReadSection(p) ==
    /\ op[p] = "UpdateUser"
    /\ pc[p] \in {"check", "exec", "ret"}

\* Handles opened and not closed.
LiveHandles == {h \in 1..opened : closedBy[h] = None}

\* C1: the critical section of an Initialize or a Close never overlaps with
\* the critical section of an UpdateUser nor with that of another Initialize
\* or Close.  (That two UpdateUser calls may be inside together is
\* C1_TwoRotationsInside.)
C1_WriterExcludesAll ==
    \A p \in Procs : \A q \in Procs \ {p} :
        InWriteSection(p) => ~InWriteSection(q) /\ ~InReadSection(q)

\* Two rotations are executing statements against the handle at the same time.
C1_TwoRotationsInside ==
    \E p \in Procs : \E q \in Procs \ {p} :
        /\ InReadSection(p) /\ pc[p] = "exec"
        /\ InReadSection(q) /\ pc[q] = "exec"

\* C2: every handle ever opened is the one stored in d.db or has been
\* closed, so at most one handle is open.
C2_SingleLiveHandle ==
    /\ LiveHandles \subseteq {db.id}
    /\ Cardinality(LiveHandles) <= 1

\* A second handle is stored, the first one was closed by Initialize.
C2_SecondHandleStored ==
    /\ opened >= 2
    /\ db.id = opened
    /\ closedBy[1] = "Initialize"
    /\ LiveHandles = {opened}

\* C3: when Initialize returns an error, d.db is nil and every handle opened
\* so far, the one of this call included, has been closed.
C3_FailedInitializeLeavesNoHandle ==
    \A p \in Procs :
        AtRet(p, "Initialize") /\ ret[p] # NoErr
            => /\ ret[p] \in {ErrDecode, ErrURLRequired, ErrOpen, ErrVerify}
               /\ db = NilDB
               /\ LiveHandles = {}

\* Initialize returns the probe's failure; the handle it had opened is closed.
C3_ProbeFailed ==
    \E p \in Procs :
        /\ AtRet(p, "Initialize")
        /\ ret[p] = ErrVerify
        /\ opened >= 1
        /\ closedBy[opened] = "Initialize.verify"

\* C4: Initialize with an empty connection_url returns a configuration
\* error in every state, and the handle stored when the call began has been
\* closed by this call and d.db is nil.
C4_MissingURLTearsDown ==
    \A p \in Procs :
        AtRet(p, "Initialize") /\ req[p].Config.connection_url = <<>>
            => /\ ret[p] \in {ErrURLRequired, ErrDecode}
               /\ ~req[p].Config.bad => ret[p] = ErrURLRequired
               /\ db = NilDB
               /\ pre[p].db # NilDB => closedBy[pre[p].db.id] = "Initialize"

\* Initialize on a Ready instance fails on the missing connection_url.
C4_ReadyThenMissingURL ==
    \E p \in Procs :
        /\ AtRet(p, "Initialize")
        /\ req[p].Config.connection_url = <<>>
        /\ ~req[p].Config.bad
        /\ pre[p].db # NilDB

\* C5: the instance starts without a handle; d.db becomes non-nil only in
\* the open step of an Initialize, which runs when every earlier handle is
\* closed; a successful Initialize ends with a new, open handle stored and
\* the handle it found closed; Close ends with d.db nil; d.db is cleared
\* only by Initialize or Close.
C5_Lifecycle ==
    /\ db = NilDB
    /\ [][ /\ \A p \in Procs :
                /\ (op[p] = "Initialize" /\ pc[p] # "ret" /\ pc'[p] = "ret" /\ ret'[p] = NoErr)
                      => /\ db' # NilDB
                         /\ closedBy'[db'.id] = None
                         /\ db'.id # pre[p].db.id
                         /\ pre[p].db # NilDB => closedBy'[pre[p].db.id] # None
                /\ (pc[p] = "open" /\ opened' # opened)
                      => /\ db = NilDB
                         /\ LiveHandles = {}
                         /\ db'.id = opened'
                /\ (pc[p] = "close" /\ pc'[p] = "ret")
                      => db' = NilDB
           /\ (db = NilDB /\ db' # NilDB)
                 => \E p \in Procs : op[p] = "Initialize" /\ pc[p] = "open" /\ pc'[p] # "open"
           /\ (db # NilDB /\ db' # db)
                 => /\ db' = NilDB
                    /\ \E p \in Procs : /\ op[p] \in {"Initialize", "Close"}
                                        /\ pc[p] \in {"teardown", "verify", "close"}
                                        /\ pc'[p] # pc[p]
         ]_vars

\* Initialize, Initialize again, Close, Initialize: Ready with the third handle.
C5_ReadyAgainAfterClose ==
    \E p \in Procs :
        /\ AtRet(p, "Initialize")
        /\ ret[p] = NoErr
        /\ db.id = 3
        /\ closedBy[1] = "Initialize"
        /\ closedBy[2] = "Close"
        /\ pre[p].db = NilDB

C7_InvalidRotationRejected ==
    \A p \in Procs :
        /\ op[p] = "UpdateUser"
        /\ pc[p] \in {"exec", "ret"}
        /\ req[p].HasPassword
        /\ (req[p].Username = <<>> \/ req[p].NewPassword = <<>>)
        => /\ pc[p] = "ret"
           /\ ret[p] \notin {NoErr, Pending}
           /\ executed[p] = <<>>

\* A Ready instance rejects an empty new password that comes with statements.
C7_ReadyEmptyPassword ==
    \E p \in Procs :
        /\ AtRet(p, "UpdateUser")
        /\ pre[p].db # NilDB
        /\ req[p].HasPassword
        /\ req[p].Username # <<>>
        /\ req[p].NewPassword = <<>>
        /\ Len(req[p].Statements) >= 2
        /\ ret[p] = ErrPasswordRequired

\* C8: on an instance that was never initialized, UpdateUser with a
\* password change returns "username is required" for an empty username and
\* "new password is required" for a non-empty username and an empty new
\* password.
C8_ValidationBeforeConnection ==
    \A p \in Procs :
        AtRet(p, "UpdateUser") /\ opened = 0 /\ config = ZeroConfig /\ req[p].HasPassword
            => /\ req[p].Username = <<>> => ret[p] = ErrUsernameRequired
               /\ (req[p].Username # <<>> /\ req[p].NewPassword = <<>>)
                     => ret[p] = ErrPasswordRequired

\* C9: on a Ready instance an UpdateUser without a password change returns
\* success, executes nothing and leaves d.db and d.config as it found them,
\* for every username.
C9_NoPasswordIsNoOp ==
    \A p \in Procs :
        /\ op[p] = "UpdateUser"
        /\ pc[p] \in {"exec", "ret"}
        /\ pre[p].db # NilDB
        /\ ~req[p].HasPassword
        => /\ pc[p] = "ret"
           /\ ret[p] = NoErr
           /\ executed[p] = <<>>
           /\ db = pre[p].db
           /\ config = pre[p].config
           /\ closedBy[db.id] = None

\* A Ready instance gets no password change for the empty username.
C9_ReadyNoPasswordEmptyUsername ==
    \E p \in Procs :
        /\ AtRet(p, "UpdateUser")
        /\ pre[p].db # NilDB
        /\ ~req[p].HasPassword
        /\ req[p].Username = <<>>

\* The template tpl with each placeholder token replaced by the one-token
\* value u or w.
Substituted(tpl, u, w) ==
    [j \in 1..Len(tpl) |->
        IF tpl[j] = "{{username}}" THEN u[1]
        ELSE IF tpl[j] = "{{password}}" THEN w[1]
        ELSE tpl[j]]

\* C10: on a Ready instance a valid UpdateUser executes the statements of
\* the request in order against the stored handle, each with the
\* placeholders replaced; only the last executed statement can have failed,
\* so what was executed is a prefix of the list; the call returns success
\* exactly when all statements were executed without failure, and an error
\* that wraps the driver's error and names the username otherwise.
C10_OrderedAbortOnFirstFailure ==
    \A p \in Procs :
        /\ op[p] = "UpdateUser"
        /\ pc[p] \in {"exec", "ret"}
        /\ pre[p].db # NilDB
        /\ req[p].HasPassword /\ req[p].Username # <<>> /\ req[p].NewPassword # <<>>
        /\ Len(req[p].Statements) > 0
        => LET r == req[p]
               ex == executed[p]
               n == Len(r.Statements)
           IN  /\ Len(ex) <= n
               /\ \A k \in 1..Len(ex) :
                     /\ ex[k].query = Substituted(r.Statements[k], r.Username, r.NewPassword)
                     /\ ex[k].handle = pre[p].db.id
                     /\ k < Len(ex) => ex[k].err = NoErr
               /\ pc[p] = "exec"
                     => /\ Len(ex) = idx[p] - 1
                        /\ Len(ex) < n
                        /\ \A k \in 1..Len(ex) : ex[k].err = NoErr
               /\ pc[p] = "ret"
                     => /\ Len(ex) >= 1
                        /\ IF ex[Len(ex)].err = NoErr
                           THEN ret[p] = NoErr /\ Len(ex) = n
                           ELSE ret[p] = <<"failed to update password for user ">>
                                            \o r.Username \o <<": ">> \o ex[Len(ex)].err

\* The first of several statements failed and the call has returned.
C10_AbortedAfterFirst ==
    \E p \in Procs :
        /\ AtRet(p, "UpdateUser")
        /\ Len(req[p].Statements) >= 2
        /\ Len(executed[p]) = 1
        /\ executed[p][1].err = DriverExecErr
        /\ ret[p] # NoErr


\* C11: on a Ready instance a valid UpdateUser without statements executes
\* exactly one statement, ALTER USER "<username>" IDENTIFIED BY "<password>";
\* a request with statements never executes that statement.
C11_DefaultStatement ==
    \A p \in Procs :
        /\ op[p] = "UpdateUser"
        /\ pc[p] \in {"exec", "ret"}
        /\ pre[p].db # NilDB
        /\ req[p].HasPassword /\ req[p].Username # <<>> /\ req[p].NewPassword # <<>>
        => LET r == req[p]
               ex == executed[p]
               alter == <<"ALTER USER \"", r.Username[1], "\" IDENTIFIED BY \"",
                          r.NewPassword[1], "\"">>
           IN  IF Len(r.Statements) = 0
               THEN /\ pc[p] = "exec" => ex = <<>>
                    /\ pc[p] = "ret" => Len(ex) = 1 /\ ex[1].query = alter
               ELSE \A k \in 1..Len(ex) : ex[k].query # alter /\ ex[k].query[1] # "ALTER USER \""

\* testuser / newpw without statements: ALTER USER "testuser" IDENTIFIED BY
\* "newpw" was executed and the call succeeded.
C11_DefaultExecuted ==
    \E p \in Procs :
        /\ AtRet(p, "UpdateUser")
        /\ req[p].Statements = <<>>
        /\ ret[p] = NoErr
        /\ Len(executed[p]) = 1
        /\ executed[p][1].query =
              <<"ALTER USER \"", "testuser", "\" IDENTIFIED BY \"", "newpw", "\"">>

\* C12: UpdateUser never changes the lifecycle state.  From the moment it
\* holds the read lock until it returns, whatever it returns, d.db and
\* d.config are what they were when it got the lock, the stored handle is
\* still open, and no step of an UpdateUser call opens, closes, stores or
\* clears a handle or writes the config.
C12_UpdateUserKeepsState ==
    /\ [](\A p \in Procs :
            InReadSection(p)
                => /\ db = pre[p].db
                   /\ config = pre[p].config
                   /\ db # NilDB => closedBy[db.id] = None)
    /\ [][\A p \in Procs :
            (op[p] = "UpdateUser" \/ op'[p] = "UpdateUser")
            /\ (pc'[p] # pc[p] \/ idx'[p] # idx[p])
                => UNCHANGED <<db, config, closedBy, opened>>]_vars

\* A rotation on a Ready instance has failed at its first statement.
C12_FailedRotationOnReady ==
    \E p \in Procs :
        /\ AtRet(p, "UpdateUser")
        /\ pre[p].db # NilDB
        /\ Len(executed[p]) = 1
        /\ ret[p] = ErrUpdate(<<"testuser">>, DriverExecErr)

\* C13: in every state NewUser and DeleteUser fail with their
\* not-supported error and Type returns "db2" without an error; none of the
\* three makes a driver call, holds or awaits d.mux, or changes d.db,
\* d.config or any handle.
C13_UnsupportedAndType ==
    /\ [](\A p \in Procs :
            /\ AtRet(p, "NewUser")
                => ret[p] = <<"NewUser is not supported for DB2 static credentials plugin">>
            /\ AtRet(p, "DeleteUser")
                => ret[p] = <<"DeleteUser is not supported for DB2 static credentials plugin">>
            /\ AtRet(p, "Type") => out[p] = <<"db2">> /\ ret[p] = NoErr
            /\ op[p] \in {"Type", "NewUser", "DeleteUser"}
                => executed[p] = <<>> /\ p \notin muxR /\ muxW # p)
    /\ [][\A p \in Procs :
            (op[p] \in {"Type", "NewUser", "DeleteUser"}
                \/ op'[p] \in {"Type", "NewUser", "DeleteUser"})
            /\ pc'[p] # pc[p]
                => UNCHANGED <<db, config, muxW, muxR, closedBy, opened>>]_vars

\* NewUser has returned its error while an Initialize holds the write lock
\* with the new handle stored.
C13_NewUserDuringInitialize ==
    \E p, q \in Procs :
        /\ AtRet(p, "NewUser")
        /\ op[q] = "Initialize" /\ pc[q] = "verify"
        /\ db # NilDB

\* C14 as stated: every Close succeeds, the first of two in a row as well as
\* the second, and leaves no handle stored.
C14_CloseAlwaysSucceeds ==
    \A p \in Procs :
        AtRet(p, "Close") => ret[p] = NoErr /\ db = NilDB

\* C14, amended: a Close that finds a handle closes it, clears d.db and
\* returns what the driver's close returned, an error included; a Close that
\* finds no handle, such as the second of two in a row, returns success,
\* closes nothing and changes nothing.  No Close changes d.config.
C14_CloseIdempotent ==
    /\ [](\A p \in Procs :
            AtRet(p, "Close")
                => /\ db = NilDB
                   /\ config = pre[p].config
                   /\ pre[p].db = NilDB => ret[p] = NoErr
                   /\ pre[p].db # NilDB
                        => /\ closedBy[pre[p].db.id] = "Close"
                           /\ ret[p] \in {NoErr, DriverCloseErr})
    /\ [][\A p \in Procs :
            op[p] = "Close" /\ pc[p] = "close" /\ pc'[p] = "ret" /\ db = NilDB
                => /\ UNCHANGED <<db, config, closedBy, opened>>
                   /\ ret'[p] = NoErr]_vars

\* The latest handle was closed by a Close, and the next Close, which found
\* no handle, has returned.
C14_SecondCloseInARow ==
    \E p \in Procs :
        /\ AtRet(p, "Close")
        /\ pre[p].db = NilDB
        /\ opened > 0
        /\ closedBy[opened] = "Close"

\* C15: the connection string Initialize hands to sql.Open is the
\* connection_url followed by ;UID=<username>;PWD=<password> exactly when
\* username and password are both non-empty and the connection_url contains
\* neither UID= nor PWD=; otherwise it is the connection_url unchanged.
C15_ConnectionString ==
    \A p \in Procs :
        op[p] = "Initialize" /\ Len(executed[p]) >= 1
            => LET url == config.ConnectionURL
                   marked == \E k \in 1..Len(url) : url[k] \in {"UID=", "PWD="}
               IN  executed[p][1].query =
                       IF config.Username # <<>> /\ config.Password # <<>> /\ ~marked
                       THEN url \o <<";", "UID=">> \o config.Username
                                \o <<";", "PWD=">> \o config.Password
                       ELSE url

\* C16: the map SecretMasker.Values() returns, read while no Initialize is
\* writing d.config, has as keys exactly the non-empty ones among the
\* Username and the Password of the stored config, the Username mapped to
\* "[username]" and the Password to "[password]"; so it holds no value of
\* an earlier config that the stored one does not have.
C16_MaskingMap ==
    [][\A p \in Procs :
        op'[p] = "SecretValues" /\ pc[p] = "idle" /\ pc'[p] = "ret"
        /\ (\A q \in Procs : pc[q] # "store")
            => LET m == out'[p]
               IN  /\ DOMAIN m = {k \in {config.Username, config.Password} : k # <<>>}
                   /\ config.Username # <<>> => m[config.Username] = "[username]"
                   /\ config.Password # <<>> => m[config.Password] = "[password]"]_vars

\* C17: Close leaves d.config as it found it; Values() can be called in
\* every state, a fresh instance included, and returns without an error;
\* called right after a Close has cleared the handle it returns the masking
\* of the config that was stored when that Close began.
C17_CloseKeepsMasking ==
    /\ [](\A p \in Procs :
            /\ AtRet(p, "Close") => config = pre[p].config
            /\ AtRet(p, "SecretValues") => ret[p] = NoErr
            /\ pc[p] = "idle" => ENABLED SecretValues(p))
    /\ [][\A p, q \in Procs :
            op'[p] = "SecretValues" /\ pc[p] = "idle" /\ pc'[p] = "ret" /\ AtRet(q, "Close")
                => LET c == pre[q].config
                   IN  out'[p] = [k \in {c.Password, c.Username} |->
                                     IF k = c.Username THEN "[username]" ELSE "[password]"]]_vars

\* A Close has cleared the handle of an instance configured with testuser /
\* testpass and has not returned yet; Values() has returned their masking.
C17_ValuesAfterClose ==
    \E p, q \in Procs :
        /\ AtRet(q, "Close")
        /\ pre[q].db # NilDB
        /\ db = NilDB
        /\ config.Username = <<"testuser">>
        /\ AtRet(p, "SecretValues")
        /\ DOMAIN out[p] = {<<"testuser">>, <<"testpass">>}

\* C20: no operation retries.  One UpdateUser call executes each of its
\* statements at most once; one Initialize call opens at most one handle
\* and probes at most once; a driver call that fails is the last one of its
\* operation, which returns an error right then.
C20_NoRetry ==
    \A p \in Procs :
        LET ex == executed[p]
            calls(c) == {k \in 1..Len(ex) : ex[k].call = c}
        IN  /\ \A k \in 1..Len(ex) :
                  ex[k].err # NoErr
                      => k = Len(ex) /\ pc[p] = "ret" /\ ret[p] \notin {NoErr, Pending}
            /\ op[p] = "UpdateUser"
                  => /\ calls("ExecContext") = 1..Len(ex)
                     /\ \A j, k \in 1..Len(ex) : j # k => ex[j].query # ex[k].query
                     /\ Len(ex) > 0
                          => Len(ex) <= IF req[p].Statements = <<>> THEN 1
                                        ELSE Len(req[p].Statements)
            /\ op[p] = "Initialize"
                  => /\ Cardinality(calls("sql.Open")) <= 1
                     /\ Cardinality(calls("PingContext")) <= 1
                     /\ calls("ExecContext") = {}
            /\ op[p] \notin {"UpdateUser", "Initialize"} => ex = <<>>

\* An Initialize that opened a handle, probed once and failed.
C20_ProbeFailedOnce ==
    \E p \in Procs :
        /\ AtRet(p, "Initialize")
        /\ ret[p] = ErrVerify
        /\ Len(executed[p]) = 2
        /\ executed[p][1].call = "sql.Open" /\ executed[p][1].err = NoErr
        /\ executed[p][2].call = "PingContext" /\ executed[p][2].err = DriverPingErr

\* C18: no deadlock and no starvation.  Whenever callers are inside
\* operations, one of them can take a step; every operation that was called
\* returns; a Close or Initialize that waits for the rotations inside to
\* leave gets the write lock.
C18_Progress ==
    /\ []((\E p \in Procs : pc[p] # "idle")
            => \E p \in Procs :
                  pc[p] # "idle" /\ ENABLED (Step(p) \/ MuxLock(p) \/ MuxRLock(p)))
    /\ \A p \in Procs : (pc[p] # "idle") ~> (pc[p] = "idle")
    /\ \A p \in Procs : (pc[p] = "lockwait") ~> InWriteSection(p)

\* A Close waits for the write lock while a rotation is between its first
\* and its second statement.
C18_CloseWaitsForRotation ==
    \E p, q \in Procs :
        /\ op[p] = "Close" /\ pc[p] = "lockwait"
        /\ op[q] = "UpdateUser" /\ pc[q] = "exec" /\ idx[q] = 2

\* C21: the error of an UpdateUser whose statement failed is "failed to
\* update password for user <username>: <driver error>": it names the
\* username, ends with the driver's error and holds no piece of the new
\* password; two failed rotations with the same username, the same
\* statements and the same driver error return the same text whatever their
\* new passwords are.
C21_ErrorHidesPassword ==
    \A p \in Procs :
        AtRet(p, "UpdateUser") /\ Len(executed[p]) > 0
        /\ executed[p][Len(executed[p])].err # NoErr
            => LET r == req[p]
                   drv == executed[p][Len(executed[p])].err
               IN  /\ ret[p] = <<"failed to update password for user ">> \o r.Username
                                  \o <<": ">> \o drv
                   /\ \A k \in 1..Len(ret[p]) : \A j \in 1..Len(r.NewPassword) :
                          ret[p][k] # r.NewPassword[j]
                   /\ \A q \in Procs :
                          (/\ AtRet(q, "UpdateUser") /\ Len(executed[q]) > 0
                           /\ executed[q][Len(executed[q])].err = drv
                           /\ req[q].Username = r.Username
                           /\ req[q].Statements = r.Statements)
                              => ret[q] = ret[p]

\* Two rotations of testuser, one to newpw and one to otherpw, have failed
\* at the same statement with the same driver error.
C21_TwoFailuresTwoPasswords ==
    \E p, q \in Procs :
        /\ AtRet(p, "UpdateUser") /\ AtRet(q, "UpdateUser")
        /\ req[p].NewPassword = <<"newpw">> /\ req[q].NewPassword = <<"otherpw">>
        /\ req[p].Username = <<"testuser">> /\ req[q].Username = <<"testuser">>
        /\ req[p].Statements = req[q].Statements
        /\ Len(executed[p]) = 1 /\ Len(executed[q]) = 1
        /\ executed[p][1].err = DriverExecErr /\ executed[q][1].err = DriverExecErr

\* C22: Initialize probes the connection if and only if VerifyConnection is
\* set and the open succeeded, once, on the handle it has just opened and
\* stored.  A failed probe closes that handle, clears d.db and fails with
\* "failed to verify DB2 connection: ..."; with VerifyConnection unset a
\* config that decodes and has a connection_url is Ready as soon as the open
\* succeeds, without any probe.
C22_ProbeIffVerify ==
    \A p \in Procs :
        op[p] = "Initialize"
            => LET ex == executed[p]
                   pings == {k \in 1..Len(ex) : ex[k].call = "PingContext"}
               IN  /\ \A k \in pings :
                          /\ k = 2 /\ Len(ex) = 2
                          /\ req[p].VerifyConnection
                          /\ ex[1].call = "sql.Open" /\ ex[1].err = NoErr
                          /\ ex[2].handle = ex[1].handle
                          /\ ex[2].err = NoErr
                                => db.id = ex[1].handle /\ closedBy[db.id] = None
                          /\ ex[2].err # NoErr
                                => /\ ret[p] = <<"failed to verify DB2 connection: ">> \o ex[2].err
                                   /\ db = NilDB
                                   /\ closedBy[ex[1].handle] = "Initialize.verify"
                   /\ pc[p] = "verify"
                          => pings = {} /\ db.id = ex[1].handle /\ req[p].VerifyConnection
                   /\ (pc[p] = "ret" /\ Len(ex) > 0 /\ ex[1].err = NoErr)
                          => /\ req[p].VerifyConnection <=> pings = {2}
                             /\ ~req[p].VerifyConnection
                                   => /\ ret[p] = NoErr
                                      /\ db.id = ex[1].handle
                                      /\ closedBy[db.id] = None
                   /\ (/\ pc[p] = "ret" /\ ~req[p].VerifyConnection /\ ~req[p].Config.bad
                       /\ req[p].Config.connection_url # <<>>)
                          => Len(ex) = 1

\* Initialize without VerifyConnection is Ready after the open alone.
C22_ReadyWithoutProbe ==
    \E p \in Procs :
        /\ AtRet(p, "Initialize")
        /\ ~req[p].VerifyConnection
        /\ ret[p] = NoErr
        /\ db # NilDB
        /\ Len(executed[p]) = 1

\* C23: under every interleaving with Initialize and Close, each statement
\* of an UpdateUser is executed on the handle that was stored when the call
\* took the read lock, and that handle is open then and stays stored and
\* open until the call has returned: no statement meets a closed handle.
C23_NoStatementOnClosedHandle ==
    \A p \in Procs :
        op[p] = "UpdateUser" /\ pc[p] \in {"exec", "ret"} /\ pre[p].db # NilDB
            => /\ db.id = pre[p].db.id
               /\ db.id \notin closed
               /\ \A k \in 1..Len(executed[p]) :
                      /\ executed[p][k].handle = pre[p].db.id
                      /\ executed[p][k].err # DriverClosedErr
               /\ ret[p] # PanicNilDB

\* A rotation has executed both its statements while an Initialize waits
\* for the write lock.
C23_RotationDoneInitializeWaiting ==
    \E p, q \in Procs :
        /\ AtRet(p, "UpdateUser")
        /\ Len(executed[p]) = 2
        /\ ret[p] = NoErr
        /\ op[q] = "Initialize" /\ pc[q] = "lockwait"

\* C24: d.config is written only by an Initialize whose config decoded and
\* has a connection_url.  An Initialize that fails at the decoding or at the
\* connection_url check returns with d.config, and so Values(), as it found
\* them, the handle it found being closed and gone; one that fails at the
\* open or at the probe returns with its own config stored, and Values()
\* then gives the Username and Password of that config.
C24_ConfigReplacedAfterChecks ==
    /\ [](\A p \in Procs :
            AtRet(p, "Initialize")
                => /\ ret[p] \in {ErrDecode, ErrURLRequired}
                        => /\ config = pre[p].config
                           /\ db = NilDB
                           /\ pre[p].db # NilDB => pre[p].db.id \in closed
                   /\ ret[p] \in {ErrOpen, ErrVerify, NoErr}
                        => /\ ~req[p].Config.bad
                           /\ config.ConnectionURL = req[p].Config.connection_url
                           /\ config.ConnectionURL # <<>>
                           /\ config.Username = req[p].Config.username
                           /\ config.Password = req[p].Config.password)
    /\ [][/\ config' # config
             => \E p \in Procs :
                   /\ op[p] = "Initialize" /\ pc[p] = "store" /\ pc'[p] = "open"
                   /\ ~req[p].Config.bad /\ req[p].Config.connection_url # <<>>
          /\ \A p, q \in Procs :
                (AtRet(p, "Initialize") /\ op'[q] = "SecretValues" /\ pc[q] = "idle"
                 /\ pc'[q] = "ret")
                    => DOMAIN out'[q] =
                          IF ret[p] \in {ErrDecode, ErrURLRequired}
                          THEN {pre[p].config.Username, pre[p].config.Password}
                          ELSE {req[p].Config.username, req[p].Config.password}]_vars

\* An instance configured for testuser; an Initialize for admin has failed
\* at the open, and Values() has returned admin's masking.
C24_FailedOpenReplacedConfig ==
    \E p, q \in Procs :
        /\ AtRet(p, "Initialize")
        /\ ret[p] = ErrOpen
        /\ pre[p].config.Username = <<"testuser">>
        /\ config.Username = <<"admin">>
        /\ AtRet(q, "SecretValues")
        /\ <<"admin">> \in DOMAIN out[q]

\* C25: Values() takes no lock and may run while an Initialize holds the
\* write lock; the map it returns is built from one config, either the one
\* stored before that Initialize wrote d.config or the one it writes: never
\* from the Username of one and the Password of the other.
C25_ValuesFromOneConfig ==
    [][\A p \in Procs :
        op'[p] = "SecretValues" /\ pc[p] = "idle" /\ pc'[p] = "ret"
            => \E c \in {config} \cup
                        {Decode(req[q].Config) : q \in {q \in Procs : pc[q] = "store"}} :
                  /\ DOMAIN out'[p] = {c.Username, c.Password}
                  /\ out'[p][c.Username] = "[username]"]_vars

\* C26: whenever no Initialize or Close is inside its write section and a
\* handle is stored, the stored config has a connection_url and the stored
\* handle is open and was opened with the connection string that
\* buildConnectionString yields for exactly that config.
C26_HandleMatchesConfig ==
    (db # NilDB /\ \A p \in Procs : ~InWriteSection(p))
        => /\ config.ConnectionURL # <<>>
           /\ db.dsn = buildConnectionString(config)
           /\ HasPrefix(db.dsn, config.ConnectionURL)
           /\ db.id \notin closed

\* Ready for the second time, with another config than the first, and no
\* writer inside.
C26_ReadyWithSecondConfig ==
    /\ \A p \in Procs : ~InWriteSection(p)
    /\ db.id = 2
    /\ closedBy[1] = "Initialize"
    /\ config.Username = <<"admin">>
    /\ config.ConnectionURL = URLCreds

\* C27: a Close that found a handle ends with d.db nil and that handle
\* closed, whether the driver's close succeeded or not; it returns the
\* driver's error if there was one.  Only a Close that found a handle can
\* fail, so the Close that follows finds none and returns success.
C27_CloseDiscardsOnError ==
    \A p \in Procs :
        AtRet(p, "Close")
            => /\ db = NilDB
               /\ ret[p] # NoErr => ret[p] = DriverCloseErr /\ pre[p].db # NilDB
               /\ pre[p].db # NilDB => pre[p].db.id \in closed

\* A Close on a Ready instance has failed with the driver's error and the
\* handle is gone; the next Close is waiting for the lock.
C27_CloseFailedHandleGone ==
    \E p, q \in Procs :
        /\ AtRet(p, "Close")
        /\ ret[p] = DriverCloseErr
        /\ db = NilDB
        /\ op[q] = "Close" /\ pc[q] = "lock"
=============================================================================
